---- MODULE Spec2Model ----
(***************************************************************************)
(* Pairing and signalling-relay server of omgl (src/server.js).            *)
(*                                                                         *)
(* The server is single threaded: every handler (connection, message,      *)
(* close, grace timer callback) runs to completion, so each handler is one *)
(* atomic action.  Connections are numbered in the order in which they are *)
(* accepted.  A JS Map is modelled with its insertion order where the code *)
(* iterates it and returns on the first hit (connectedPairs), and as a     *)
(* function where only membership matters (clientIds).                     *)
(*                                                                         *)
(* ws.send on a socket that is no longer open is discarded by the ws       *)
(* library without raising (no callback is passed), so a send to a closed  *)
(* connection delivers nothing.                                            *)
(***************************************************************************)
EXTENDS Integers, Sequences, FiniteSets, TLC

\* Bounds of the model.
MaxConn == 3      \* connections accepted over the life of the process
MaxMsgs == 4      \* client messages handled over the life of the process
MaxBrowsers == 2  \* browser profiles, each with its own localStorage
MaxInFlight == 1  \* messages a page has sent that the server has not handled

Conns == 1..MaxConn
Browsers == 1..MaxBrowsers

\* Map.get of a missing key, a missing message field: JS undefined.
Undef == 0
\* Marks a connection that has no entry in clientIds.
NoEntry == -1

\* Identifiers a client can present: "client-1" .. "client-MaxConn", which
\* localStorage may hold from this or an earlier run of the server.
Ids == 1..MaxConn

VARIABLES
    status,          \* connection -> "unborn" | "open" | "closed"
    waitingClients,  \* array of connections
    connectedPairs,  \* Map connection -> connection, in insertion order
    clientIds,       \* Map connection -> identifier
    nextClientId,    \* counter of issued identifiers
    timers,          \* pending grace timers, in the order they were set
    inbox,           \* connection -> messages delivered to it, in order
    alive,           \* FALSE once an uncaught exception ended the process
    presentedIds,    \* history: connection -> the previousId / clientId
                     \* values of the joins and reconnects it has sent
    nmsgs,           \* history: number of client messages handled
    unpairedSend,    \* history: TRUE once forwardSignalingMessage has found
                     \* no connectedPairs entry for the sender
    localStorage,    \* browser -> the item omgl_client_id (Undef: null)
    pages            \* connection -> the page of game.js behind it

vars == <<status, waitingClients, connectedPairs, clientIds, nextClientId,
          timers, inbox, alive, presentedIds, nmsgs, unpairedSend,
          localStorage, pages>>

\* the state of the browsers
clientVars == <<localStorage, pages>>

\* no page: the connection is not yet accepted, or its client is not a page
NoPage == [browser |-> 0, storedClientId |-> Undef, phase |-> "none",
           out |-> <<>>, alone |-> FALSE]

----------------------------------------------------------------------------
\* JS Map with insertion order, as a sequence of [k, v] entries.

MapHas(m, k) == \E i \in 1..Len(m) : m[i].k = k

MapGet(m, k) ==
    IF MapHas(m, k) THEN m[CHOOSE i \in 1..Len(m) : m[i].k = k].v ELSE Undef

\* set keeps the position of an existing key and appends a new one
MapSet(m, k, v) ==
    IF MapHas(m, k)
    THEN [i \in 1..Len(m) |-> IF m[i].k = k THEN [k |-> k, v |-> v] ELSE m[i]]
    ELSE Append(m, [k |-> k, v |-> v])

MapDelete(m, k) ==
    LET keep(e) == e.k # k IN SelectSeq(m, keep)

MapKeys(m) == {m[i].k : i \in 1..Len(m)}

\* clientIds.get(ws)
IdOf(ids, c) == IF ids[c] = NoEntry THEN Undef ELSE ids[c]

----------------------------------------------------------------------------
\* Messages.  A message on the wire is a JSON text; it is modelled by its
\* fields plus the form of the text ("compact" as JSON.stringify writes it,
\* "spaced" for any other text of the same value).

Msg(type, flag, id, body) ==
    [type |-> type, flag |-> flag, id |-> id, body |-> body, form |-> "compact"]

ClientIdMsg(id) == Msg("client-id", "none", id, 0)
PeerAssignment(isInitiator, partnerId) ==
    Msg("peer-assignment", isInitiator, partnerId, 0)
PartnerReconnected(partnerId) == Msg("partner-reconnected", "none", partnerId, 0)
ReconnectSuccess(partnerId) == Msg("reconnect-success", "true", partnerId, 0)
PartnerDisconnectedTemp(partnerId) ==
    Msg("partner-disconnected", "true", partnerId, 0)
PartnerDisconnectedFinal == Msg("partner-disconnected", "false", Undef, 0)

\* ws.send(text): delivered when the socket is open, discarded otherwise
Send(box, st, c, m) ==
    IF st[c] = "open" THEN [box EXCEPT ![c] = Append(@, m)] ELSE box

----------------------------------------------------------------------------
Init ==
    /\ status = [c \in Conns |-> "unborn"]
    /\ waitingClients = <<>>
    /\ connectedPairs = <<>>
    /\ clientIds = [c \in Conns |-> NoEntry]
    /\ nextClientId = 1
    /\ timers = <<>>
    /\ inbox = [c \in Conns |-> <<>>]
    /\ alive = TRUE
    /\ presentedIds = [c \in Conns |-> {}]
    /\ nmsgs = 0
    /\ unpairedSend = FALSE
    /\ localStorage = [b \in Browsers |-> Undef]
    /\ pages = [c \in Conns |-> NoPage]

\* wss.on('connection'): issue an identifier, bind it, send client-id
AcceptConnection(c) ==
    /\ alive
    /\ status[c] = "unborn"
    /\ \A d \in Conns : d < c => status[d] # "unborn"
    /\ status' = [status EXCEPT ![c] = "open"]
    /\ clientIds' = [clientIds EXCEPT ![c] = nextClientId]
    /\ nextClientId' = nextClientId + 1
    /\ inbox' = [inbox EXCEPT ![c] = Append(@, ClientIdMsg(nextClientId))]
    /\ UNCHANGED <<waitingClients, connectedPairs, timers, alive, presentedIds,
                   nmsgs, unpairedSend>>

\* a client connects
Connect(c) == AcceptConnection(c) /\ UNCHANGED clientVars

----------------------------------------------------------------------------
\* Helpers of the handlers

Min(S) == CHOOSE x \in S : \A y \in S : x <= y

\* waitingClients.pop(): removes and returns the last element of the array
PopIndex(w) == Len(w)

RemoveAt(w, i) == [j \in 1..(Len(w) - 1) |-> IF j < i THEN w[j] ELSE w[j + 1]]

\* indexOf(ws) followed by splice(index, 1): drops the first occurrence
RemoveFirst(w, c) ==
    IF \E i \in 1..Len(w) : w[i] = c
    THEN RemoveAt(w, Min({i \in 1..Len(w) : w[i] = c}))
    ELSE w

\* handleReconnect, the loop over connectedPairs.entries(): index of the
\* first entry whose key is bound to previousId, 0 when there is none
FirstMatch(cp, ids, previousId) ==
    LET hits == {i \in 1..Len(cp) : IdOf(ids, cp[i].k) = previousId}
    IN  IF hits = {} THEN 0 ELSE Min(hits)

\* handleReconnect, the three Map operations of a successful reconnect
ReplaceConnection(cp, existingWs, ws, partnerWs) ==
    MapSet(MapSet(MapDelete(cp, existingWs), ws, partnerWs), partnerWs, ws)

\* handleClientJoin, the two Map operations that record a new pair
TrackPair(cp, ws, partnerWs) == MapSet(MapSet(cp, ws, partnerWs), partnerWs, ws)

\* AssignRoles with each side told its own identifier as partnerId
AssignRolesOwnId(box, st, ids, ws, partnerWs) ==
    Send(Send(box, st, ws, PeerAssignment("true", IdOf(ids, ws))),
         st, partnerWs, PeerAssignment("false", IdOf(ids, partnerWs)))

\* handleClientJoin, the two peer-assignment messages
AssignRoles(box, st, ids, ws, partnerWs) ==
    Send(Send(box, st, ws, PeerAssignment("true", IdOf(ids, partnerWs))),
         st, partnerWs, PeerAssignment("false", IdOf(ids, ws)))

\* handleReconnect, partner-reconnected and reconnect-success
NotifyReconnect(box, st, ids, ws, partnerWs, previousId) ==
    Send(Send(box, st, partnerWs, PartnerReconnected(previousId)),
         st, ws, ReconnectSuccess(IdOf(ids, partnerWs)))

\* the timer callback's loop over clientIds.entries()
HasReconnected(ids, ws, disconnectedId) ==
    \E existingWs \in Conns :
        /\ ids[existingWs] # NoEntry
        /\ ids[existingWs] = disconnectedId
        /\ existingWs # ws

\* history kept with a pending grace timer: pres, its identifier has been
\* presented since the close; replaced, a reconnect has taken the place of
\* its connection in connectedPairs; torn, the callback of the partner's timer
\* has removed the entry of its connection
MarkPresented(ts, id, existingWs) ==
    [i \in 1..Len(ts) |->
        [ts[i] EXCEPT !.pres = @ \/ ts[i].id = id,
                      !.replaced = @ \/ ts[i].ws = existingWs]]

MarkTorn(ts, partner) ==
    [i \in 1..Len(ts) |-> [ts[i] EXCEPT !.torn = @ \/ ts[i].ws = partner]]

----------------------------------------------------------------------------
\* handleReconnect(ws, previousId)
HandleReconnect(ws, previousId) ==
    LET ids1 == [clientIds EXCEPT ![ws] = previousId]
        i == FirstMatch(connectedPairs, ids1, previousId)
    IN  /\ clientIds' = ids1
        /\ timers' = MarkPresented(timers, previousId,
                                    IF i # 0 THEN connectedPairs[i].k ELSE Undef)
        /\ IF i # 0
           THEN LET existingWs == connectedPairs[i].k
                    partnerWs == connectedPairs[i].v
                IN  /\ connectedPairs' =
                           ReplaceConnection(connectedPairs, existingWs, ws,
                                             partnerWs)
                    /\ inbox' = NotifyReconnect(inbox, status, ids1, ws,
                                                 partnerWs, previousId)
                    /\ UNCHANGED waitingClients
           ELSE /\ waitingClients' = Append(waitingClients, ws)
                /\ UNCHANGED <<connectedPairs, inbox>>

\* handleClientJoin(ws, previousId) with a falsy previousId
HandleFreshJoin(ws) ==
    IF Len(waitingClients) > 0
    THEN LET partnerWs == waitingClients[PopIndex(waitingClients)]
         IN  /\ waitingClients' =
                    RemoveAt(waitingClients, PopIndex(waitingClients))
             /\ inbox' = AssignRoles(inbox, status, clientIds, ws, partnerWs)
             /\ connectedPairs' = TrackPair(connectedPairs, ws, partnerWs)
             /\ UNCHANGED <<clientIds, timers>>
    ELSE /\ waitingClients' = Append(waitingClients, ws)
         /\ UNCHANGED <<connectedPairs, clientIds, timers, inbox>>

\* a client message can arrive on an open connection of a live process
CanReceive(c) == alive /\ status[c] = "open" /\ nmsgs < MaxMsgs

\* ws.on('message'), case 'join'
ReceiveJoin(c, previousId) ==
    /\ CanReceive(c)
    /\ IF previousId # Undef
       THEN HandleReconnect(c, previousId)
       ELSE HandleFreshJoin(c)
    /\ presentedIds' = [presentedIds EXCEPT ![c] = @ \cup {previousId}]
    /\ nmsgs' = nmsgs + 1
    /\ UNCHANGED <<status, nextClientId, alive, unpairedSend>>

\* message {type:'join', previousId}
Join(c, previousId) == ReceiveJoin(c, previousId) /\ UNCHANGED clientVars

\* ws.on('message'), case 'reconnect'
ReceiveReconnect(c, id) ==
    /\ CanReceive(c)
    /\ HandleReconnect(c, id)
    /\ presentedIds' = [presentedIds EXCEPT ![c] = @ \cup {id}]
    /\ nmsgs' = nmsgs + 1
    /\ UNCHANGED <<status, nextClientId, alive, unpairedSend>>

\* message {type:'reconnect', clientId}
Reconnect(c, id) == ReceiveReconnect(c, id) /\ UNCHANGED clientVars

\* the case labels of the switch in ws.on('message') that forward
ForwardedTypes == {"offer", "answer", "ice-candidate"}
\* the game messages game.js sends over the same socket
GameTypes == {"toss", "role", "number"}
Bodies == {3, 5}
Forms == {"compact", "spaced"}
RawMessages ==
    [type : ForwardedTypes \cup GameTypes, body : Bodies, form : Forms]

\* the texts whose type the switch forwards
SignalingMessages == [type : ForwardedTypes, body : Bodies, form : Forms]

\* JSON.parse of a well-formed text keeps the fields and loses the form
JsonParse(raw) == [type |-> raw.type, body |-> raw.body]
\* JSON.stringify writes the compact form
JsonStringify(message) == Msg(message.type, "none", Undef, message.body)

\* every open connection other than the sender receives the message
SendToOthers(box, sender, m) ==
    [d \in Conns |->
        IF d # sender /\ status[d] = "open" THEN Append(box[d], m) ELSE box[d]]

\* ForwardSignalingMessage falling back to all other connections when the
\* sender has no partner
ForwardSignalingMessageFanOut(box, sender, message) ==
    LET partner == MapGet(connectedPairs, sender)
    IN  IF partner # Undef
        THEN Send(box, status, partner, JsonStringify(message))
        ELSE SendToOthers(box, sender, JsonStringify(message))

\* forwardSignalingMessage(sender, message)
ForwardSignalingMessage(box, sender, message) ==
    LET partner == MapGet(connectedPairs, sender)
    IN  IF partner # Undef
        THEN Send(box, status, partner, JsonStringify(message))
        ELSE box

\* the switch of ws.on('message') for a message that is neither join nor
\* reconnect
Dispatch(box, c, message) ==
    IF message.type \in ForwardedTypes
    THEN ForwardSignalingMessage(box, c, message)
    ELSE box

\* forwardSignalingMessage is called and connectedPairs.get(sender) is
\* undefined
FindsNoPartner(c, message) ==
    message.type \in ForwardedTypes /\ MapGet(connectedPairs, c) = Undef

\* a well-formed message of any other type
Relay(c, raw) ==
    /\ CanReceive(c)
    /\ inbox' = Dispatch(inbox, c, JsonParse(raw))
    /\ unpairedSend' = (unpairedSend \/ FindsNoPartner(c, JsonParse(raw)))
    /\ UNCHANGED presentedIds
    /\ nmsgs' = nmsgs + 1
    /\ UNCHANGED <<status, waitingClients, connectedPairs, clientIds,
                   nextClientId, timers, alive, localStorage, pages>>

\* a text that JSON.parse rejects: the exception leaves the 'message'
\* listener uncaught and ends the process
Malformed(c) ==
    /\ CanReceive(c)
    /\ alive' = FALSE
    /\ UNCHANGED presentedIds
    /\ nmsgs' = nmsgs + 1
    /\ UNCHANGED <<status, waitingClients, connectedPairs, clientIds,
                   nextClientId, timers, inbox, unpairedSend, localStorage,
                   pages>>

\* ws.on('close'): handleClientDisconnect(ws)
Close(c) ==
    /\ alive
    /\ status[c] = "open"
    /\ LET disconnectedId == IdOf(clientIds, c)
           partner == MapGet(connectedPairs, c)
           st1 == [status EXCEPT ![c] = "closed"]
       IN  /\ status' = st1
           /\ waitingClients' = RemoveFirst(waitingClients, c)
           /\ IF partner # Undef
              THEN /\ inbox' = Send(inbox, st1, partner,
                                    PartnerDisconnectedTemp(disconnectedId))
                   /\ timers' = Append(timers,
                                       [ws |-> c, partner |-> partner,
                                        id |-> disconnectedId, pres |-> FALSE,
                                        replaced |-> FALSE, torn |-> FALSE])
                   /\ UNCHANGED clientIds
              ELSE /\ clientIds' = [clientIds EXCEPT ![c] = NoEntry]
                   /\ UNCHANGED <<inbox, timers>>
    /\ UNCHANGED <<connectedPairs, nextClientId, alive, presentedIds, nmsgs,
                   unpairedSend, localStorage, pages>>

\* the setTimeout callback of handleClientDisconnect.  All grace timers have
\* the same delay, so they fire in the order in which they were set.
TimerFire ==
    /\ alive
    /\ timers # <<>>
    /\ LET t == Head(timers)
       IN  /\ IF ~HasReconnected(clientIds, t.ws, t.id)
              THEN LET cp1 == MapDelete(connectedPairs, t.ws)
                   IN  /\ IF MapHas(cp1, t.partner)
                          THEN /\ connectedPairs' = MapDelete(cp1, t.partner)
                               /\ timers' = MarkTorn(Tail(timers), t.partner)
                               /\ inbox' = Send(inbox, status, t.partner,
                                                PartnerDisconnectedFinal)
                               /\ waitingClients' =
                                      Append(waitingClients, t.partner)
                          ELSE /\ connectedPairs' = cp1
                               /\ timers' = Tail(timers)
                               /\ UNCHANGED <<inbox, waitingClients>>
                       /\ clientIds' = [clientIds EXCEPT ![t.ws] = NoEntry]
              ELSE /\ timers' = Tail(timers)
                   /\ UNCHANGED <<connectedPairs, inbox, waitingClients,
                                  clientIds>>
    /\ UNCHANGED <<status, nextClientId, alive, presentedIds, nmsgs,
                   unpairedSend, localStorage, pages>>

Next ==
    \/ \E c \in Conns : Connect(c)
    \/ \E c \in Conns : \E previousId \in {Undef} \cup Ids : Join(c, previousId)
    \/ \E c \in Conns : \E id \in Ids : Reconnect(c, id)
    \/ \E c \in Conns : \E raw \in RawMessages : Relay(c, raw)
    \/ \E c \in Conns : Malformed(c)
    \/ \E c \in Conns : Close(c)
    \/ TimerFire

\* The server as it stands: it accepts any join or reconnect on any open
\* connection.  A reconnect message always carries a clientId.
Spec == Init /\ [][Next]_vars

\* The same server driven only by pages running game.js: a page reads
\* localStorage once (const presentedIds) and sends that value, or null, in
\* every join and reconnect of its connection, and it never sends a text that
\* is not JSON.
FromGameJs(c, id) == presentedIds[c] \subseteq {id}

NextClient ==
    \/ \E c \in Conns : Connect(c)
    \/ \E c \in Conns : \E previousId \in {Undef} \cup Ids :
           FromGameJs(c, previousId) /\ Join(c, previousId)
    \/ \E c \in Conns : \E id \in Ids : FromGameJs(c, id) /\ Reconnect(c, id)
    \/ \E c \in Conns : \E raw \in RawMessages : Relay(c, raw)
    \/ \E c \in Conns : Close(c)
    \/ TimerFire

SpecClient == Init /\ [][NextClient]_vars

----------------------------------------------------------------------------
\* The relay server of src/unnamed/part_000.  It keeps no state of its own:
\* wss.clients is the set of connections, of which the open ones receive.  Of
\* the variables only status, inbox and nmsgs change.

\* client.send(message): the text goes out as it came in
Verbatim(raw) ==
    [type |-> raw.type, flag |-> "none", id |-> Undef, body |-> raw.body,
     form |-> raw.form]

\* the signalling texts a page sends, one of each type
SignalingTexts ==
    {raw \in SignalingMessages : raw.body = 3 /\ raw.form = "spaced"}

\* wss.on('connection'): nothing is sent to the new client
BroadcastConnect(c) ==
    /\ status[c] = "unborn"
    /\ \A d \in Conns : d < c => status[d] # "unborn"
    /\ status' = [status EXCEPT ![c] = "open"]
    /\ UNCHANGED <<waitingClients, connectedPairs, clientIds, nextClientId,
                   timers, inbox, alive, presentedIds, nmsgs, unpairedSend,
                   localStorage, pages>>

\* ws.on('message'): relay to every other client whose socket is open
BroadcastMessage(c, raw) ==
    /\ status[c] = "open"
    /\ nmsgs < MaxMsgs
    /\ inbox' = SendToOthers(inbox, c, Verbatim(raw))
    /\ nmsgs' = nmsgs + 1
    /\ UNCHANGED <<status, waitingClients, connectedPairs, clientIds,
                   nextClientId, timers, alive, presentedIds, unpairedSend,
                   localStorage, pages>>

\* ws.on('close')
BroadcastClose(c) ==
    /\ status[c] = "open"
    /\ status' = [status EXCEPT ![c] = "closed"]
    /\ UNCHANGED <<waitingClients, connectedPairs, clientIds, nextClientId,
                   timers, inbox, alive, presentedIds, nmsgs, unpairedSend,
                   localStorage, pages>>

NextBroadcast ==
    \/ \E c \in Conns : BroadcastConnect(c)
    \/ \E c \in Conns : \E raw \in SignalingTexts : BroadcastMessage(c, raw)
    \/ \E c \in Conns : BroadcastClose(c)

SpecBroadcast == Init /\ [][NextBroadcast]_vars

----------------------------------------------------------------------------
\* The server of src/server.js with pages of src/public/game.js as its
\* clients.  A page belongs to a browser, whose localStorage it shares with
\* the pages loaded there before and after it; a reload is the close of one
\* page and the load of another in the same browser.  What a page has sent
\* and the server has not yet handled is in the page's out queue.

JoinMsg(previousId) == [type |-> "join", id |-> previousId]
ReconnectMsg(clientId) == [type |-> "reconnect", id |-> clientId]

\* history kept with a page: alone, no other page of its browser was open
\* when it was loaded (a first visit, or the reload of the only tab)
NoOpenPage(b) ==
    \A d \in Conns : pages[d].browser = b => status[d] = "closed"

\* the page is loaded in browser b: the script reads storedClientId from
\* localStorage and opens the socket, which the server accepts
PageLoad(c, b) ==
    /\ AcceptConnection(c)
    /\ pages' = [pages EXCEPT ![c] =
                     [browser |-> b, storedClientId |-> localStorage[b],
                      phase |-> "loaded", out |-> <<>>,
                      alone |-> NoOpenPage(b)]]
    /\ UNCHANGED localStorage

\* ws.onmessage, case 'client-id': the issued identifier is stored, then the
\* page sends reconnect with storedClientId if it has one, join otherwise
PageOnClientId(c) ==
    /\ status[c] = "open"
    /\ pages[c].phase = "loaded"
    /\ LET page == pages[c]
           clientId == inbox[c][1].id
       IN  /\ localStorage' = [localStorage EXCEPT ![page.browser] = clientId]
           /\ pages' = [pages EXCEPT
                  ![c].phase = "ready",
                  ![c].out = IF page.storedClientId # Undef
                             THEN <<ReconnectMsg(page.storedClientId)>>
                             ELSE <<JoinMsg(page.storedClientId)>>]
    /\ UNCHANGED <<status, waitingClients, connectedPairs, clientIds,
                   nextClientId, timers, inbox, alive, presentedIds, nmsgs,
                   unpairedSend>>

\* resetGame(): on partner-disconnected with temporary:false, on 'play
\* again' and on 'change partner' the page sends join with storedClientId
PageResetGame(c) ==
    /\ status[c] = "open"
    /\ pages[c].phase = "ready"
    /\ Len(pages[c].out) < MaxInFlight
    /\ pages' = [pages EXCEPT
           ![c].out = Append(@, JoinMsg(pages[c].storedClientId))]
    /\ UNCHANGED <<status, waitingClients, connectedPairs, clientIds,
                   nextClientId, timers, inbox, alive, presentedIds, nmsgs,
                   unpairedSend, localStorage>>

\* the server handles the oldest message the page has sent
PageDeliver(c) ==
    /\ pages[c].out # <<>>
    /\ LET m == Head(pages[c].out)
       IN  IF m.type = "reconnect"
           THEN ReceiveReconnect(c, m.id)
           ELSE ReceiveJoin(c, m.id)
    /\ pages' = [pages EXCEPT ![c].out = Tail(@)]
    /\ UNCHANGED localStorage

\* the offer of an initiating page; the server handles answer and
\* ice-candidate by the same case of its switch
PageTexts == {raw \in SignalingTexts : raw.type = "offer"}

\* initializeWebRTC(), which sends the offer and the ICE candidates, runs
\* on peer-assignment and on reconnect-success
HasPeer(c) ==
    \E i \in 1..Len(inbox[c]) :
        inbox[c][i].type \in {"peer-assignment", "reconnect-success"}

\* the page sends a signalling message once it has been given a peer
PageSend(c, raw) ==
    /\ pages[c].phase = "ready"
    /\ pages[c].out = <<>>
    /\ HasPeer(c)
    /\ Relay(c, raw)

NextPages ==
    \/ \E c \in Conns : \E b \in Browsers : PageLoad(c, b)
    \/ \E c \in Conns : PageOnClientId(c)
    \/ \E c \in Conns : PageResetGame(c)
    \/ \E c \in Conns : PageDeliver(c)
    \/ \E c \in Conns : \E raw \in PageTexts : PageSend(c, raw)
    \/ \E c \in Conns : Close(c)
    \/ TimerFire

SpecPages == Init /\ [][NextPages]_vars

----------------------------------------------------------------------------
\* Properties

Paired(c) == MapHas(connectedPairs, c)
PartnerOf(c) == MapGet(connectedPairs, c)
InPool(c) == \E i \in 1..Len(waitingClients) : waitingClients[i] = c

\* C1: in every reachable state connectedPairs is symmetric: whenever it
\* maps A to B it also maps B to A.
C1_PairsSymmetric ==
    \A a \in Conns : Paired(a) => PartnerOf(PartnerOf(a)) = a

\* C6: in every reachable state no connection is both in waitingClients and
\* a key of connectedPairs.
C6_PoolExcludesPaired ==
    \A c \in Conns : ~(InPool(c) /\ Paired(c))

\* a join or reconnect message of connection c that presents identifier id
Presents(c, id) == Join(c, id) \/ Reconnect(c, id)

\* Reconnect before the deadline, the reconnect itself: A and B are paired, A
\* has closed and its grace timer is pending; when a connection c that has
\* sent nothing yet presents A's identifier, connectedPairs maps B to c and c
\* to B with no entry left for A, and B receives one partner-reconnected.
C2_ReconnectStep ==
    \A c \in Conns : \A id \in Ids : \A i \in 1..Len(timers) :
        LET a == timers[i].ws
            b == PartnerOf(a)
        IN  (/\ Presents(c, id)
             /\ presentedIds[c] = {}
             /\ timers[i].id = id
             /\ Paired(a) /\ b # a /\ PartnerOf(b) = a)
            => /\ MapGet(connectedPairs', b) = c
               /\ MapGet(connectedPairs', c) = b
               /\ ~MapHas(connectedPairs', a)
               /\ status[b] = "open" =>
                      inbox'[b] = Append(inbox[b], PartnerReconnected(id))

\* Reconnect before the deadline, the timer: firing after a reconnect took A's
\* place, A's timer sends nothing to the partner it captured.
C2_TimerStep ==
    (TimerFire /\ Head(timers).replaced)
        => inbox'[Head(timers).partner] = inbox[Head(timers).partner]

\* C2: when a new connection presents the identifier of a closed, paired
\* connection A before A's grace timer fires, connectedPairs maps A's partner
\* B to the new connection and back with no entry left for A, B receives
\* exactly one partner-reconnected, and A's timer sends B no
\* partner-disconnected with temporary:false.
C2_ReconnectBeforeDeadline == [][C2_ReconnectStep /\ C2_TimerStep]_vars

\* no open connection is bound to the identifier of grace timer t
NoLiveHolder(t) ==
    \A e \in Conns :
        (e # t.ws /\ clientIds[e] = t.id)
            => /\ status[e] = "closed"
               /\ \A i \in 1..Len(timers) : timers[i].ws # e

\* C3: when the grace timer of a closed, still paired connection A fires and
\* nobody has presented A's identifier since A closed (nor is any open
\* connection bound to it), connectedPairs keeps no entry for A nor for A's
\* partner of that moment, clientIds drops A, and the partner, when it is
\* alive, is appended to waitingClients and sent partner-disconnected with
\* temporary:false.
C3_DeadlineExpiry ==
    [][LET t == Head(timers)
           a == t.ws
           p == PartnerOf(a)
       IN  (TimerFire /\ ~t.pres /\ NoLiveHolder(t) /\ Paired(a))
           => /\ ~MapHas(connectedPairs', a)
              /\ ~MapHas(connectedPairs', p)
              /\ clientIds'[a] = NoEntry
              /\ status[p] = "open" =>
                     /\ waitingClients' = Append(waitingClients, p)
                     /\ inbox'[p] = Append(inbox[p], PartnerDisconnectedFinal)
      ]_vars

\* C4: a join without previousId of a connection that is not itself waiting
\* and finds the pool non-empty is paired with the connection that has waited
\* longest, the head of waitingClients.
C4_FifoPairing ==
    [][\A c \in Conns :
          (Join(c, Undef) /\ ~InPool(c) /\ Len(waitingClients) > 0)
              => MapGet(connectedPairs', c) = Head(waitingClients)]_vars

\* C5: a game message (toss, role, number) of a paired connection is
\* delivered to its partner once, with the same type and content.
C5_GameMessageRelayed ==
    [][\A c \in Conns : \A raw \in RawMessages :
          LET p == PartnerOf(c)
          IN  (/\ Relay(c, raw)
               /\ raw.type \in GameTypes
               /\ Paired(c) /\ p # c /\ status[p] = "open")
              => inbox'[p] =
                     Append(inbox[p], Msg(raw.type, "none", Undef, raw.body))
      ]_vars

\* the partner captured by grace timer t is paired, both ways, with an open
\* connection other than the closed one
ActivePairing(t) ==
    \E c \in Conns :
        /\ c # t.ws /\ c # t.partner
        /\ status[c] = "open" /\ status[t.partner] = "open"
        /\ PartnerOf(c) = t.partner /\ PartnerOf(t.partner) = c

\* C8: when the grace timer of A fires after a reconnect has taken A's place
\* in the pairing and that pairing is active, the firing changes neither
\* connectedPairs nor waitingClients and sends nothing.
C8_SupersededTimerNoOp ==
    [][(TimerFire /\ Head(timers).replaced /\ ActivePairing(Head(timers)))
          => UNCHANGED <<connectedPairs, waitingClients, inbox>>]_vars

\* C7: two fresh connections join without previousId and nobody else waits:
\* the first is alone in the pool having received only its client-id; when
\* the second, which has sent nothing yet, joins, each has received exactly
\* its own client-id followed by one peer-assignment, the joiner as initiator
\* and the waiting one not, each naming the other's identifier.
C7_FreshPairHandshake ==
    [][\A c \in Conns : \A p \in Conns :
          (/\ Join(c, Undef)
           /\ presentedIds[c] = {}
           /\ waitingClients = <<p>>
           /\ presentedIds[p] = {Undef} /\ Len(inbox[p]) = 1)
          => /\ inbox'[c] = <<ClientIdMsg(clientIds[c]),
                              PeerAssignment("true", clientIds[p])>>
             /\ inbox'[p] = <<ClientIdMsg(clientIds[p]),
                              PeerAssignment("false", clientIds[c])>>
             /\ clientIds[c] # clientIds[p]
             /\ clientIds[c] # NoEntry /\ clientIds[p] # NoEntry]_vars

C7_Witness ==
    \E c \in Conns : \E p \in Conns :
        /\ c # p
        /\ presentedIds[c] = {Undef} /\ presentedIds[p] = {Undef}
        /\ PartnerOf(c) = p /\ PartnerOf(p) = c
        /\ inbox[c] = <<ClientIdMsg(clientIds[c]),
                        PeerAssignment("true", clientIds[p])>>
        /\ inbox[p] = <<ClientIdMsg(clientIds[p]),
                        PeerAssignment("false", clientIds[c])>>

\* C9: both sides of a pairing are in grace; after the timer that fired first
\* has torn the pairing down, the firing of the other timer removes no entry
\* of connectedPairs, enqueues nobody and sends nothing.
C9_LaterTimerIgnored ==
    [][(TimerFire /\ Head(timers).torn)
          => UNCHANGED <<connectedPairs, waitingClients, inbox>>]_vars

\* C10: a join without previousId that would pair a connection which already
\* has an entry in connectedPairs (the joining connection, or whichever
\* connection is taken from the pool) leaves connectedPairs unchanged and
\* sends no peer-assignment.
C10_DuplicatePairingRejected ==
    [][\A c \in Conns :
          (/\ Join(c, Undef)
           /\ Len(waitingClients) > 0
           /\ \/ Paired(c)
              \/ \A i \in 1..Len(waitingClients) : Paired(waitingClients[i]))
          => UNCHANGED <<connectedPairs, inbox>>]_vars

\* the identifier a join or reconnect of c presents is bound to no key of
\* connectedPairs once c is bound to it
Unmatched(c, id) ==
    FirstMatch(connectedPairs, [clientIds EXCEPT ![c] = id], id) = 0

\* C11: a join with previousId or a reconnect whose identifier matches no
\* entry of connectedPairs has the effect of a join without previousId in the
\* same state: with a connection waiting, the last of waitingClients is taken
\* out and paired with the sender and both are sent their peer-assignment;
\* with nobody waiting, the sender is appended to waitingClients and nothing
\* is sent.
C11_UnmatchedIsFreshJoin ==
    [][\A c \in Conns : \A id \in Ids :
          (/\ Presents(c, id)
           /\ Unmatched(c, id)
           /\ presentedIds[c] = {} /\ ~InPool(c) /\ ~Paired(c))
          => IF Len(waitingClients) > 0
             THEN LET partnerWs == waitingClients[PopIndex(waitingClients)]
                  IN  /\ waitingClients' =
                             RemoveAt(waitingClients, PopIndex(waitingClients))
                      /\ connectedPairs' = TrackPair(connectedPairs, c, partnerWs)
                      /\ inbox' = AssignRoles(inbox, status, clientIds, c,
                                              partnerWs)
             ELSE /\ waitingClients' = Append(waitingClients, c)
                  /\ UNCHANGED <<connectedPairs, inbox>>]_vars

\* C13: in every reachable state each connection appears at most once in
\* waitingClients.
C13_PoolNoDuplicates ==
    \A i \in 1..Len(waitingClients) : \A j \in 1..Len(waitingClients) :
        waitingClients[i] = waitingClients[j] => i = j

\* C12: an offer, answer or ice-candidate message of connection S is
\* delivered to one connection at most (the one connectedPairs maps S to),
\* with its type and content unchanged, and never to several connections.
C12_SinglePartnerRelay ==
    [][\A c \in Conns : \A raw \in SignalingTexts :
          BroadcastMessage(c, raw)
              => /\ Cardinality({d \in Conns : inbox'[d] # inbox[d]}) <= 1
                 /\ \A d \in Conns :
                        inbox'[d] # inbox[d] =>
                            /\ inbox'[d][Len(inbox'[d])].type = raw.type
                            /\ inbox'[d][Len(inbox'[d])].body = raw.body]_vars

\* C14: the close of a connection that has no entry in connectedPairs
\* leaves it out of waitingClients and of clientIds and sets no timer; the
\* close of a paired connection sends its partner one partner-disconnected
\* with temporary:true and the closing connection's identifier, sets one
\* timer and leaves connectedPairs as it is.
C14_SocketClosure ==
    [][\A c \in Conns :
          LET p == PartnerOf(c)
          IN  Close(c)
              => IF ~Paired(c)
                 THEN /\ \A i \in 1..Len(waitingClients') :
                             waitingClients'[i] # c
                      /\ clientIds'[c] = NoEntry
                      /\ timers' = timers
                 ELSE /\ connectedPairs' = connectedPairs
                      /\ Len(timers') = Len(timers) + 1
                      /\ (p # c /\ status[p] = "open") =>
                             inbox'[p] = Append(inbox[p],
                                 PartnerDisconnectedTemp(clientIds[c]))]_vars

\* C15: in every reachable state no two open connections are bound to the
\* same identifier in clientIds; this includes a connection that has just
\* been issued its identifier and one bound by a reconnect.
C15_IdentifiersUnique ==
    \A a \in Conns : \A b \in Conns :
        (a # b /\ status[a] = "open" /\ status[b] = "open")
            => clientIds[a] # clientIds[b]

\* C16: a message that is not JSON leaves waitingClients, connectedPairs and
\* clientIds unchanged, does not close the sending connection and does not
\* end the process.
C16_MalformedIgnored ==
    [][\A c \in Conns :
          Malformed(c)
              => /\ alive'
                 /\ UNCHANGED <<waitingClients, connectedPairs, clientIds,
                                status>>]_vars

\* C17: an offer, answer or ice-candidate message of a connection that has
\* no entry in connectedPairs is dropped: no connection is sent anything,
\* the sender stays open, the process stays up, and waitingClients,
\* connectedPairs and clientIds are unchanged.
C17_UnpairedSendDropped ==
    [][\A c \in Conns :
          ~Paired(c) =>
              \A raw \in SignalingMessages :
                  Relay(c, raw)
                  => /\ UNCHANGED <<inbox, waitingClients, connectedPairs,
                                    clientIds>>
                     /\ status'[c] = "open"
                     /\ alive']_vars

\* an unpaired connection has sent an offer, answer or ice-candidate while
\* other connections were open to receive
C17_Witness ==
    /\ unpairedSend
    /\ alive
    /\ connectedPairs = <<>>
    /\ \A c \in Conns : status[c] = "open" /\ Len(inbox[c]) = 1

\* C18: in every reachable state connectedPairs maps no connection to
\* itself.
C18_NoSelfPairing ==
    \A c \in Conns : Paired(c) => PartnerOf(c) # c

\* C19: in every reachable state every connection in waitingClients is
\* open.
C19_OnlyLiveWait ==
    \A i \in 1..Len(waitingClients) : status[waitingClients[i]] = "open"

\* a grace timer set by the close of c has not fired yet
TimerPending(c) == \E i \in 1..Len(timers) : timers[i].ws = c

\* C20: in every reachable state a closed connection has an entry in
\* clientIds only while its grace timer is pending.
C20_RegistryCleanup ==
    \A c \in Conns :
        (status[c] = "closed" /\ clientIds[c] # NoEntry) => TimerPending(c)

\* C21: in every reachable state waitingClients does not hold two distinct
\* open connections: two live unpaired peers are paired with each other
\* rather than both left waiting.
C21_NoMissedPairing ==
    \A i \in 1..Len(waitingClients) : \A j \in 1..Len(waitingClients) :
        (/\ status[waitingClients[i]] = "open"
         /\ status[waitingClients[j]] = "open")
            => waitingClients[i] = waitingClients[j]

\* message i of a connection's inbox opens a grace period that no later
\* message before position n has resolved
OpenGrace(box, i, n) ==
    /\ box[i].type = "partner-disconnected" /\ box[i].flag = "true"
    /\ \A k \in (i + 1)..(n - 1) :
           box[k].type \notin {"partner-reconnected", "partner-disconnected"}

\* C22: a partner-reconnected is sent to a connection only while a
\* partner-disconnected with temporary:true sent to it is unresolved (no
\* partner-reconnected and no further partner-disconnected after it); in
\* particular a join with previousId or a reconnect of a connection that is
\* open and paired sends none.  Stated for steps taken from a pairing table
\* that is symmetric and free of self-pairings.
C22_ReconnectedResolvesGrace ==
    [][\A b \in Conns :
          (/\ C1_PairsSymmetric /\ C18_NoSelfPairing
           /\ Len(inbox'[b]) > Len(inbox[b])
           /\ inbox'[b][Len(inbox'[b])].type = "partner-reconnected")
          => \E i \in 1..Len(inbox[b]) :
                 OpenGrace(inbox[b], i, Len(inbox[b]) + 1)]_vars

\* the only page open in its browser, where one page at a time has been
\* open, with nothing left to be handled
CurrentPage(c) ==
    /\ status[c] = "open"
    /\ pages[c].phase = "ready" /\ pages[c].out = <<>>
    /\ \A d \in Conns :
           pages[d].browser = pages[c].browser =>
               /\ pages[d].alone
               /\ d # c => status[d] = "closed"

\* the page's reconnect has restored its pairing with the open page of
\* another browser: reconnect-success is the last message it has received
HasReconnectedPage(c) ==
    /\ Len(inbox[c]) = 2
    /\ inbox[c][2].type = "reconnect-success"
    /\ LET p == PartnerOf(c)
       IN  /\ Paired(c) /\ p # c /\ PartnerOf(p) = c
           /\ status[p] = "open"
           /\ pages[p].browser # pages[c].browser

\* C23: with pages of game.js as clients, once the page now open in a
\* browser has reloaded and reconnected successfully, the identifier in that
\* browser's localStorage, which the next reload will present, is the one
\* clientIds binds to the page's connection.
C23_IdentityAgreement ==
    \A c \in Conns :
        (CurrentPage(c) /\ HasReconnectedPage(c))
            => localStorage[pages[c].browser] = clientIds[c]
====
